---- MODULE Spec2Model ----
(***************************************************************************)
(* Model of the capital-gains lot pool of src/cgt_calculator.py: class     *)
(* Asset (one tax lot) and class AssetPool (buy, sell and the helpers      *)
(* _choose_asset_to_sell and _sell_asset), plus the script of test_case_1. *)
(*                                                                         *)
(* Number representation.  The source computes with Python numbers, and    *)
(* the only non-integer operations are the halving `cgt *= 0.5` and the    *)
(* fractional quantity 2.5 of the test.  The model is exact fixed point:   *)
(*   - a quantity q of the source is the integer q * QtyDen (half units);  *)
(*   - a date and a price are the source's integers;                       *)
(*   - a per-unit gain g of the source is the integer g * GainDen;         *)
(*   - a taxable gain t of the source (qty * per-unit gain, and their      *)
(*     sums) is the integer t * QtyDen * GainDen.                          *)
(* All values of the model are multiples of 1/2 far below 2^53, so the     *)
(* source's float arithmetic is exact on them.                             *)
(* Sequences are 1-based: index i of the model is index i-1 of the source. *)
(***************************************************************************)
EXTENDS Integers, Sequences, FiniteSets

VARIABLES
    pool,           \* AssetPool.pool: sequence of Asset records
    taxable_gain,   \* AssetPool.taxable_gain (scaled by QtyDen * GainDen)
    call,           \* the last call: [op, date, price, qty, index]
    status,         \* how the last call ended: "ok" or the exception raised
    ret,            \* the value the last call returned (0 when it returned none)
    prePool,        \* history: pool as the last call found it
    preGain,        \* history: taxable_gain as the last call found it
    consumed,       \* history: the lots the last sell took from, in order
    acquired,       \* history: sum of the quantities passed to buy
    requested,      \* history: sum of the quantities passed to sell
    overdrawn,      \* history: some sell asked for more than the pool held
    negsell,        \* history: some sell asked for a negative quantity
    raised,         \* history: some call ended in an exception
    degenerate,     \* history: some buy was given a zero or negative quantity
    removed_gain,   \* history: sum of qty * per-unit gain over all removals
    script,         \* history: steps of test_case_1 replayed so far, or Off
    ncalls          \* number of buy/sell calls made

vars == <<pool, taxable_gain, call, status, ret, prePool, preGain, consumed,
          acquired, requested, overdrawn, negsell, raised, degenerate,
          removed_gain, script, ncalls>>

----------------------------------------------------------------------------
(* Program constants and the fixed-point denominators                       *)

\* `sale_date - self.date > 365`
DiscountDays == 365

\* `cgt *= 0.5`: per-unit gains are kept as numerators over GainDen
GainDen == 2

\* `ap.sell(401, 5000, 2.5)`: quantities are kept as numerators over QtyDen
QtyDen == 2

(* Bounds of the explored behaviours                                        *)
MaxLots == 2
MaxCalls == 3
MaxPrice == 2
MaxQty == 2

\* Acquisition days and sale days: together they put a lot's holding period
\* just below, at and just above DiscountDays
BuyDates == {0, 1}
SellDates == {DiscountDays, DiscountDays + 1}
Prices == 1..MaxPrice
\* buy and sell validate nothing: zero and negative quantities are inputs too
BuyQtys == -1..MaxQty
SellQtys == -1..(MaxQty + 1)

----------------------------------------------------------------------------
(* class Asset                                                              *)

\* Asset.__init__(date, price, qty, cgt_eligible=True)
Asset(date, price, qty, cgt_eligible) ==
    [date |-> date, price |-> price, qty |-> qty, cgt_eligible |-> cgt_eligible]

\* cgt_price with the operands of the subtraction exchanged
cgt_price_swapped(asset, sale_date, sale_price) ==
    LET cgt == (asset.price - sale_price) * GainDen
    IN  IF asset.cgt_eligible /\ sale_date - asset.date > DiscountDays
        THEN cgt \div 2
        ELSE cgt

\* cgt_price with the holding test written >= instead of >
cgt_price_inclusive(asset, sale_date, sale_price) ==
    LET cgt == (sale_price - asset.price) * GainDen
    IN  IF asset.cgt_eligible /\ sale_date - asset.date >= DiscountDays
        THEN cgt \div 2
        ELSE cgt

\* Asset.cgt_price(sale_date, sale_price), result scaled by GainDen.
\* The halving is exact: the undiscounted numerator is a multiple of GainDen.
cgt_price(asset, sale_date, sale_price) ==
    LET cgt == (sale_price - asset.price) * GainDen
    IN  IF asset.cgt_eligible /\ sale_date - asset.date > DiscountDays
        THEN cgt \div 2
        ELSE cgt

----------------------------------------------------------------------------
(* class AssetPool                                                          *)

\* list.pop(index)
Pop(p, index) == [k \in 1..(Len(p) - 1) |-> IF k < index THEN p[k] ELSE p[k + 1]]

\* The for loop of _choose_asset_to_sell, from position i on.
RECURSIVE ChooseScan(_, _, _, _, _, _)
ChooseScan(p, date, price, i, cheapest_i, cheapest_cgt) ==
    IF i > Len(p)
    THEN cheapest_i
    ELSE LET this_cgt == cgt_price(p[i], date, price)
         IN  IF this_cgt < cheapest_cgt
             THEN ChooseScan(p, date, price, i + 1, i, this_cgt)
             ELSE ChooseScan(p, date, price, i + 1, cheapest_i, cheapest_cgt)

\* _choose_asset_to_sell with the comparison written > instead of <
RECURSIVE ChooseScanDearest(_, _, _, _, _, _)
ChooseScanDearest(p, date, price, i, cheapest_i, cheapest_cgt) ==
    IF i > Len(p)
    THEN cheapest_i
    ELSE LET this_cgt == cgt_price(p[i], date, price)
         IN  IF this_cgt > cheapest_cgt
             THEN ChooseScanDearest(p, date, price, i + 1, i, this_cgt)
             ELSE ChooseScanDearest(p, date, price, i + 1, cheapest_i, cheapest_cgt)

choose_asset_dearest(p, date, price) ==
    ChooseScanDearest(p, date, price, 1, 1, cgt_price(p[1], date, price))

\* AssetPool._choose_asset_to_sell(date, price); p is not empty
choose_asset_to_sell(p, date, price) ==
    ChooseScan(p, date, price, 1, 1, cgt_price(p[1], date, price))

\* _sell_asset without `qty_sold = asset.qty` in the fully-sold branch
sell_asset_keeps_request(p, index, date, price, qty_sold) ==
    LET asset == p[index]
        partial == asset.qty > qty_sold
    IN  [pool |-> IF partial
                  THEN [p EXCEPT ![index].qty = asset.qty - qty_sold]
                  ELSE Pop(p, index),
         taxable_gain |-> qty_sold * cgt_price(asset, date, price),
         qty_sold |-> qty_sold]

\* AssetPool._sell_asset(index, date, price, qty_sold): the pool after it and
\* the pair it returns
sell_asset(p, index, date, price, qty_sold) ==
    LET asset == p[index]
        partial == asset.qty > qty_sold
        sold == IF partial THEN qty_sold ELSE asset.qty
    IN  [pool |-> IF partial
                  THEN [p EXCEPT ![index].qty = asset.qty - qty_sold]
                  ELSE Pop(p, index),
         taxable_gain |-> sold * cgt_price(asset, date, price),
         qty_sold |-> sold]

\* The while loop of AssetPool.sell.  bound tells whether the local
\* taxable_gain has been assigned; taken lists what was removed so far.
\* The loop ends normally ("done") or in self.pool[0] on an empty pool
\* ("IndexError", after the diagnostic print).
RECURSIVE SellLoop(_, _, _, _, _, _, _, _)
SellLoop(p, date, price, qty_left, total_taxable_gain, last_gain, bound, taken) ==
    IF qty_left > 0
    THEN IF Len(p) < 1
         THEN [status |-> "IndexError", pool |-> p,
               total_taxable_gain |-> total_taxable_gain,
               taxable_gain |-> last_gain, bound |-> bound, taken |-> taken]
         ELSE LET index == choose_asset_to_sell(p, date, price)
                  r == sell_asset(p, index, date, price, qty_left)
              IN  SellLoop(r.pool, date, price, qty_left - r.qty_sold,
                           total_taxable_gain + r.taxable_gain,
                           r.taxable_gain, TRUE,
                           Append(taken, [lot |-> p[index],
                                          qty_sold |-> r.qty_sold,
                                          taxable_gain |-> r.taxable_gain]))
    ELSE [status |-> "done", pool |-> p,
          total_taxable_gain |-> total_taxable_gain,
          taxable_gain |-> last_gain, bound |-> bound, taken |-> taken]

RECURSIVE SumGain(_)
SumGain(taken) ==
    IF taken = <<>> THEN 0
    ELSE Head(taken).taxable_gain + SumGain(Tail(taken))

RECURSIVE PoolQty(_)
PoolQty(p) == IF p = <<>> THEN 0 ELSE Head(p).qty + PoolQty(Tail(p))

(* test_case_1: the calls it makes, in order                                *)
TestScript ==
    << [op |-> "buy",  date |-> 0,   price |-> 1000, qty |-> 1 * QtyDen],
       [op |-> "buy",  date |-> 10,  price |-> 2000, qty |-> 1 * QtyDen],
       [op |-> "buy",  date |-> 20,  price |-> 3000, qty |-> 1 * QtyDen],
       [op |-> "buy",  date |-> 400, price |-> 4000, qty |-> 1 * QtyDen],
       [op |-> "sell", date |-> 401, price |-> 5000, qty |-> 5] >>

Off == 0 - 1

\* Position in TestScript after the call (op, date, price, qty)
ScriptAfter(op, date, price, qty) ==
    IF /\ script # Off
       /\ script < Len(TestScript)
       /\ TestScript[script + 1] = [op |-> op, date |-> date, price |-> price, qty |-> qty]
    THEN script + 1
    ELSE Off

Init ==
    /\ pool = <<>>
    /\ taxable_gain = 0
    /\ call = [op |-> "init", date |-> 0, price |-> 0, qty |-> 0, index |-> 0]
    /\ status = "ok"
    /\ ret = 0
    /\ prePool = <<>>
    /\ preGain = 0
    /\ consumed = <<>>
    /\ acquired = 0
    /\ requested = 0
    /\ overdrawn = FALSE
    /\ negsell = FALSE
    /\ raised = FALSE
    /\ degenerate = FALSE
    /\ removed_gain = 0
    /\ script = 0
    /\ ncalls = 0

\* AssetPool.buy(date, price, qty)
Buy(date, price, qty) ==
    /\ pool' = Append(pool, Asset(date, price, qty, TRUE))
    /\ call' = [op |-> "buy", date |-> date, price |-> price, qty |-> qty, index |-> 0]
    /\ status' = "ok"
    /\ ret' = 0
    /\ prePool' = pool
    /\ preGain' = taxable_gain
    /\ consumed' = <<>>
    /\ acquired' = acquired + qty
    /\ degenerate' = (degenerate \/ qty <= 0)
    /\ script' = ScriptAfter("buy", date, price, qty)
    /\ ncalls' = ncalls + 1
    /\ UNCHANGED <<taxable_gain, requested, overdrawn, negsell, raised,
                   removed_gain>>

\* AssetPool.sell(date, price, qty)
Sell(date, price, qty) ==
    LET r == SellLoop(pool, date, price, qty, 0, 0, FALSE, <<>>)
    IN  /\ pool' = r.pool
        /\ taxable_gain' = IF r.status = "done"
                           THEN taxable_gain + r.total_taxable_gain
                           ELSE taxable_gain
        /\ status' = IF r.status # "done" THEN r.status
                     ELSE IF r.bound THEN "ok" ELSE "UnboundLocalError"
        /\ ret' = IF r.status = "done" /\ r.bound THEN r.taxable_gain ELSE 0
        /\ call' = [op |-> "sell", date |-> date, price |-> price, qty |-> qty, index |-> 0]
        /\ prePool' = pool
        /\ preGain' = taxable_gain
        /\ consumed' = r.taken
        /\ requested' = requested + qty
        /\ overdrawn' = (overdrawn \/ qty > PoolQty(pool))
        /\ negsell' = (negsell \/ qty < 0)
        /\ raised' = (raised \/ r.status # "done" \/ ~r.bound)
        /\ removed_gain' = removed_gain + SumGain(r.taken)
        /\ script' = ScriptAfter("sell", date, price, qty)
        /\ ncalls' = ncalls + 1
        /\ UNCHANGED <<acquired, degenerate>>

\* Asset.cgt_price(sale_date, sale_price) called on lot index of the pool
CgtPrice(index, sale_date, sale_price) ==
    /\ index \in 1..Len(pool)
    /\ ret' = cgt_price(pool[index], sale_date, sale_price)
    /\ status' = "ok"
    /\ call' = [op |-> "cgt_price", date |-> sale_date, price |-> sale_price,
                qty |-> 0, index |-> index]
    /\ prePool' = pool
    /\ preGain' = taxable_gain
    /\ consumed' = <<>>
    /\ UNCHANGED <<pool, taxable_gain, acquired, requested, overdrawn, negsell,
                   raised, degenerate, removed_gain, script, ncalls>>

BuyStep ==
    /\ ncalls < MaxCalls
    /\ Len(pool) < MaxLots
    /\ \E d \in BuyDates, p \in Prices, q \in BuyQtys : Buy(d, p, q)

SellStep ==
    /\ ncalls < MaxCalls
    /\ \E d \in SellDates, p \in Prices, q \in SellQtys : Sell(d, p, q)

Next == BuyStep \/ SellStep

Spec == Init /\ [][Next]_vars

(* test_case_1 and its neighbours: the calls of the test, in any order      *)
TestCalls(op) == {TestScript[k] : k \in {j \in 1..Len(TestScript) : TestScript[j].op = op}}

TestBuyStep ==
    /\ ncalls < Len(TestScript)
    /\ \E c \in TestCalls("buy") : Buy(c.date, c.price, c.qty)

TestSellStep ==
    /\ ncalls < Len(TestScript)
    /\ \E c \in TestCalls("sell") : Sell(c.date, c.price, c.qty)

NextTest == TestBuyStep \/ TestSellStep

SpecTest == Init /\ [][NextTest]_vars

(* Asset.cgt_price on its own: any one lot, eligible or not, any sale date  *)
(* and price                                                                *)
InitCgt ==
    /\ \E d \in BuyDates, p \in Prices, q \in BuyQtys, e \in BOOLEAN :
           pool = <<Asset(d, p, q, e)>>
    /\ taxable_gain = 0
    /\ call = [op |-> "init", date |-> 0, price |-> 0, qty |-> 0, index |-> 0]
    /\ status = "ok"
    /\ ret = 0
    /\ prePool = <<>>
    /\ preGain = 0
    /\ consumed = <<>>
    /\ acquired = 0
    /\ requested = 0
    /\ overdrawn = FALSE
    /\ negsell = FALSE
    /\ raised = FALSE
    /\ degenerate = FALSE
    /\ removed_gain = 0
    /\ script = Off
    /\ ncalls = 0

CgtPriceStep ==
    \E i \in 1..Len(pool), d \in SellDates, p \in Prices : CgtPrice(i, d, p)

NextCgt == CgtPriceStep

SpecCgt == InitCgt /\ [][NextCgt]_vars

----------------------------------------------------------------------------
(* Vocabulary of the properties                                             *)

LastSell == call.op = "sell"

\* Every lot of p holds a positive quantity
Positive(p) == \A i \in 1..Len(p) : p[i].qty > 0

\* The per-unit gains of the lots of p at a sale's date and price
GainAt(p, i) == cgt_price(p[i], call.date, call.price)

RECURSIVE SumTo(_, _)
SumTo(f, n) == IF n = 0 THEN 0 ELSE f[n] + SumTo(f, n - 1)

\* What the last sell took, valued lot by lot
ConsumedGain ==
    SumTo([k \in 1..Len(consumed) |->
              consumed[k].qty_sold * cgt_price(consumed[k].lot, call.date, call.price)],
          Len(consumed))

\* The amount the last call added to taxable_gain
Added == taxable_gain - preGain

\* The orders of the lots of prePool by non-decreasing per-unit gain
GainOrders ==
    LET n == Len(prePool)
    IN  {o \in [1..n -> 1..n] :
            /\ \A i, j \in 1..n : i # j => o[i] # o[j]
            /\ \A i, j \in 1..n : i < j => GainAt(prePool, o[i]) <= GainAt(prePool, o[j])}

\* Quantity of the first k lots in order o, and their gain taken in full
FullQty(o, k) == SumTo([i \in 1..k |-> prePool[o[i]].qty], k)
FullGain(o, k) == SumTo([i \in 1..k |-> prePool[o[i]].qty * GainAt(prePool, o[i])], k)

\* The ways to take call.qty from the lots of prePool
Assignments ==
    LET n == Len(prePool)
    IN  {x \in [1..n -> 0..call.qty] :
            /\ \A i \in 1..n : x[i] <= prePool[i].qty
            /\ SumTo(x, n) = call.qty}

AssignmentGain(x) ==
    SumTo([i \in 1..Len(prePool) |-> x[i] * GainAt(prePool, i)], Len(prePool))

----------------------------------------------------------------------------
(* C1: a sell of 0 < qty <= quantity held returns the total gain of this    *)
(* disposal: the sum over the lots it consumed of quantity consumed times   *)
(* the lot's per-unit gain (stated for pools of positive lots).             *)
C1_ReturnsDisposalTotal ==
    (LastSell /\ Positive(prePool) /\ 0 < call.qty /\ call.qty <= PoolQty(prePool))
        => (status = "ok" /\ ret = ConsumedGain)

(* C2 as stated: if no sell asked for more than the pool held, the pool's   *)
(* quantity is the quantity acquired minus the quantity requested by sells. *)
C2_ConservationAnyRequest ==
    ~overdrawn => PoolQty(pool) = acquired - requested

(* C2 amended: if no sell asked for more than the pool held nor for a       *)
(* negative quantity, the pool's quantity is the quantity acquired minus    *)
(* the quantity requested by sells.                                         *)
C2_Conservation ==
    (~overdrawn /\ ~negsell) => PoolQty(pool) = acquired - requested

C2_Witness ==
    /\ ~overdrawn /\ ~negsell
    /\ LastSell /\ status = "ok"
    /\ Positive(prePool)
    /\ Len(consumed) >= 2
    /\ Len(pool) = Len(prePool) - 1
    /\ PoolQty(pool) > 0

(* C3: a sell asking for more than the pool holds fails with                *)
(* InsufficientInventory and leaves the pool and the cumulative gain as     *)
(* they were, or has consumed everything available.                         *)
C3_InsufficientInventory ==
    (LastSell /\ call.qty > 0 /\ call.qty > PoolQty(prePool))
        => /\ status = "InsufficientInventory"
           /\ \/ (pool = prePool /\ taxable_gain = preGain)
              \/ pool = <<>>

(* C4: every lot of the pool holds a positive quantity: none is negative    *)
(* and none is kept at zero.                                                *)
C4_LotsPositive ==
    \A i \in 1..Len(pool) : pool[i].qty > 0

(* C5: for a successful sell from a pool of non-negative lots, ordered by   *)
(* non-decreasing per-unit gain, that takes the first k lots in full and    *)
(* the rest from lot k+1, the amount added to taxable_gain is the gain of   *)
(* those k lots plus the rest times the gain of lot k+1, and no way of      *)
(* taking the quantity from the lots gives less.                            *)
C5_GreedyOptimal ==
    (LastSell /\ status = "ok" /\ \A i \in 1..Len(prePool) : prePool[i].qty >= 0)
        => /\ \A o \in GainOrders : \A k \in 0..Len(prePool) :
                  (/\ FullQty(o, k) <= call.qty
                   /\ k < Len(prePool) => call.qty < FullQty(o, k + 1))
                  => Added = FullGain(o, k)
                             + (IF k < Len(prePool)
                                THEN (call.qty - FullQty(o, k)) * GainAt(prePool, o[k + 1])
                                ELSE 0)
           /\ \A x \in Assignments : Added <= AssignmentGain(x)

C5_Witness ==
    /\ LastSell /\ status = "ok"
    /\ Positive(prePool)
    /\ Len(prePool) >= 2
    /\ Len(consumed) >= 2
    /\ Len(pool) = Len(prePool) - Len(consumed) + 1
    /\ \E i, j \in 1..Len(prePool) : GainAt(prePool, i) < GainAt(prePool, j)
    /\ \E x \in Assignments : Added < AssignmentGain(x)

(* C6: after the calls of test_case_1, in order, from an empty pool,        *)
(* taxable_gain is 4000.                                                    *)
C6_ReferenceScenario ==
    script = Len(TestScript) => taxable_gain = 4000 * QtyDen * GainDen

(* C7 as stated: while no call has failed, no sell lowers taxable_gain      *)
(* (stated for pools of positive lots).                                     *)
C7_GainNeverDecreases ==
    (LastSell /\ ~raised /\ Positive(prePool)) => taxable_gain >= preGain

(* C7 amended: a successful sell does not lower taxable_gain when every lot *)
(* it consumed had a non-negative quantity and a unit cost not above the    *)
(* sale price.                                                              *)
C7_GainNeverDecreasesAtProfit ==
    (/\ LastSell /\ status = "ok"
     /\ \A k \in 1..Len(consumed) :
            consumed[k].lot.qty >= 0 /\ consumed[k].lot.price <= call.price)
        => taxable_gain >= preGain

C7_Witness ==
    /\ LastSell /\ status = "ok"
    /\ Len(consumed) >= 2
    /\ \A k \in 1..Len(consumed) :
           consumed[k].lot.qty > 0 /\ consumed[k].lot.price < call.price
    /\ taxable_gain > preGain

(* C8: a sell of a zero or negative quantity fails with InvalidArgument and *)
(* leaves the lots and the cumulative gain unchanged.                       *)
C8_InvalidQuantity ==
    (LastSell /\ call.qty <= 0)
        => (status = "InvalidArgument" /\ pool = prePool /\ taxable_gain = preGain)

(* C9: for an eligible lot, cgt_price is sale price minus unit cost when    *)
(* the lot was held 365 days or less and exactly half of it when held       *)
(* longer, and computing it leaves the lot and the pool as they were.       *)
C9_DiscountBoundary ==
    call.op = "cgt_price" =>
        LET lot == prePool[call.index]
            held == call.date - lot.date
            full == (call.price - lot.price) * GainDen
        IN  /\ (lot.cgt_eligible /\ held <= 365) => ret = full
            /\ (lot.cgt_eligible /\ held > 365) => 2 * ret = full
            /\ pool = prePool
            /\ taxable_gain = preGain

C9_Witness ==
    /\ call.op = "cgt_price"
    /\ prePool[call.index].cgt_eligible
    /\ prePool[call.index].date = 0
    /\ call.date = 365
    /\ ret # 0
    /\ ret = (call.price - prePool[call.index].price) * GainDen

(* C10: taxable_gain is the sum, over everything sells removed from lots,   *)
(* of quantity removed times the lot's per-unit gain at that sell, whether  *)
(* the sells succeeded or failed (stated for buys of positive quantities).  *)
C10_GainAccounting ==
    ~degenerate => taxable_gain = removed_gain


====
